---- MODULE Spec2Model ----
(***************************************************************************)
(* Module registry and role/plan-gated sidebar navigation of the           *)
(* react-modular-monolith scaffold.                                        *)
(*                                                                         *)
(* modules/registry.ts evaluates the registry array `modules` and its two  *)
(* filtered views; root/navigation.ts evaluates `sidebarNav`, builds       *)
(* `moduleMap` from the registry and exports getVisibleNav(hasRole,        *)
(* hasPlan).  The model follows the module-evaluation order (registry,     *)
(* then navigation, because navigation imports the registry) and then any  *)
(* number of getVisibleNav calls.                                          *)
(*                                                                         *)
(* An optional field of a TypeScript object is a sequence of length 0      *)
(* (absent / undefined) or 1 (present).                                    *)
(***************************************************************************)
EXTENDS Naturals, Sequences, FiniteSets

VARIABLES
    pc,                 \* "registry" -> "navigation" -> "ready": module evaluation
    modules,            \* registry.ts: the registry array
    publicModules,      \* registry.ts: modules.filter(m => m.public)
    protectedModules,   \* registry.ts: modules.filter(m => !m.public)
    sidebarNav,         \* navigation.ts: the sidebar array
    moduleMap,          \* navigation.ts: Map name -> manifest
    hasRole,            \* the predicate passed to the latest call
    hasPlan,            \* the predicate passed to the latest call
    result,             \* the list the latest call returned
    ncalls,             \* history: getVisibleNav calls made so far, counted up to MaxCalls
    boot                \* history: the arrays as they were when evaluation began

vars == <<pc, modules, publicModules, protectedModules, sidebarNav, moduleMap,
          hasRole, hasPlan, result, ncalls, boot>>

(***************************************************************************)
(* Bounds                                                                  *)
(***************************************************************************)
MaxNav == 2
MaxCalls == 4

(***************************************************************************)
(* Optional values                                                         *)
(***************************************************************************)
None == <<>>
Some(x) == <<x>>
IsSome(o) == Len(o) > 0
Val(o) == o[1]

Range(s) == {s[i] : i \in DOMAIN s}

(***************************************************************************)
(* Types                                                                   *)
(***************************************************************************)
Manifest(n, roles, plan, pub) ==
    [name |-> n, allowedRoles |-> roles, minPlan |-> plan, public |-> pub]

NavItem(m, t, l) == [module |-> m, to |-> t, label |-> l]

(***************************************************************************)
(* The shipped manifests, registry and sidebar                             *)
(***************************************************************************)
authModule == Manifest("auth", None, None, Some(TRUE))
dashboardModule == Manifest("dashboard", Some(<<"admin", "editor", "viewer">>), None, None)
productsModule == Manifest("products", Some(<<"admin", "editor">>), Some("starter"), None)
usersModule == Manifest("users", Some(<<"admin">>), Some("pro"), None)
settingsModule == Manifest("settings", Some(<<"admin", "editor">>), None, None)

registryDuplicate ==
    <<authModule, dashboardModule, productsModule, usersModule, settingsModule,
      Manifest("dashboard", Some(<<"admin">>), None, None)>>

registryWithoutUsers == <<authModule, dashboardModule, productsModule, settingsModule>>

registry == <<authModule, dashboardModule, productsModule, usersModule, settingsModule>>

navigation ==
    << NavItem("dashboard", "/dashboard", "Dashboard"),
       NavItem("products", "/products", "Products"),
       NavItem("users", "/users", "Users"),
       NavItem("settings", "/settings", "Settings") >>

(***************************************************************************)
(* registry.ts: the two filtered views                                     *)
(***************************************************************************)
Truthy(o) == IsSome(o) /\ Val(o) = TRUE

publicOf(ms) == SelectSeq(ms, LAMBDA m : Truthy(m.public))

protectedOnlyFalse(ms) == SelectSeq(ms, LAMBDA m : IsSome(m.public) /\ Val(m.public) = FALSE)

protectedOf(ms) == SelectSeq(ms, LAMBDA m : ~Truthy(m.public))

(***************************************************************************)
(* navigation.ts: moduleMap = new Map(modules.map(m => [m.name, m]))       *)
(* A later pair with the same key replaces the earlier one.                *)
(***************************************************************************)
LastIndex(ms, n) ==
    CHOOSE i \in DOMAIN ms :
        /\ ms[i].name = n
        /\ \A j \in DOMAIN ms : ms[j].name = n => j <= i

MapOf(ms) == [n \in {ms[i].name : i \in DOMAIN ms} |-> ms[LastIndex(ms, n)]]

\* Map.prototype.get: undefined for a missing key
MapGet(map, k) == IF k \in DOMAIN map THEN Some(map[k]) ELSE None

(***************************************************************************)
(* navigation.ts: the filter callback of getVisibleNav                     *)
(***************************************************************************)
allowedMissingVisible(manifest, hr, hp) ==
    IF ~IsSome(manifest) THEN TRUE
    ELSE IF /\ IsSome(Val(manifest).allowedRoles)
            /\ Len(Val(Val(manifest).allowedRoles)) # 0
            /\ ~hr[Val(Val(manifest).allowedRoles)] THEN FALSE
    ELSE IF IsSome(Val(manifest).minPlan) /\ ~hp[Val(Val(manifest).minPlan)] THEN FALSE
    ELSE TRUE

allowedNoPlanCheck(manifest, hr, hp) ==
    IF ~IsSome(manifest) THEN FALSE
    ELSE IF /\ IsSome(Val(manifest).allowedRoles)
            /\ Len(Val(Val(manifest).allowedRoles)) # 0
            /\ ~hr[Val(Val(manifest).allowedRoles)] THEN FALSE
    ELSE TRUE

allowedNoLengthCheck(manifest, hr, hp) ==
    IF ~IsSome(manifest) THEN FALSE
    ELSE IF /\ IsSome(Val(manifest).allowedRoles)
            /\ ~hr[Val(Val(manifest).allowedRoles)] THEN FALSE
    ELSE IF IsSome(Val(manifest).minPlan) /\ ~hp[Val(Val(manifest).minPlan)] THEN FALSE
    ELSE TRUE

\* lines 40-43: the checks made on the manifest the lookup returned
allowed(manifest, hr, hp) ==
    IF ~IsSome(manifest) THEN FALSE
    ELSE IF /\ IsSome(Val(manifest).allowedRoles)
            /\ Len(Val(Val(manifest).allowedRoles)) # 0
            /\ ~hr[Val(Val(manifest).allowedRoles)] THEN FALSE
    ELSE IF IsSome(Val(manifest).minPlan) /\ ~hp[Val(Val(manifest).minPlan)] THEN FALSE
    ELSE TRUE

\* The module a route path belongs to, for a lookup keyed by `to`.
RouteModule(t) ==
    CASE t = "/dashboard" -> "dashboard"
      [] t = "/products" -> "products"
      [] t = "/users" -> "users"
      [] t = "/settings" -> "settings"
      [] OTHER -> "reports"

keepByRoute(item, map, hr, hp) == allowed(MapGet(map, RouteModule(item.to)), hr, hp)

\* lines 38-44: the callback, lookup included
keep(item, map, hr, hp) == allowed(MapGet(map, item.module), hr, hp)

Reverse(s) == [i \in 1..Len(s) |-> s[Len(s) + 1 - i]]

filterNavReversed(nav, map, hr, hp) ==
    Reverse(SelectSeq(nav, LAMBDA item : keep(item, map, hr, hp)))

\* sidebarNav.filter(callback)
filterNav(nav, map, hr, hp) == SelectSeq(nav, LAMBDA item : keep(item, map, hr, hp))

(***************************************************************************)
(* Initial states                                                          *)
(***************************************************************************)
\* hasRole: (roles: UserRole[]) => boolean and hasPlan: (plan: PlanTier) => boolean
\* are represented by their values on the arguments the registry can pass them:
\* the allowedRoles lists and the minPlan tiers of its manifests.
RoleLists(ms) == {Val(ms[i].allowedRoles) : i \in {j \in DOMAIN ms : IsSome(ms[j].allowedRoles)}}
PlanTiers(ms) == {Val(ms[i].minPlan) : i \in {j \in DOMAIN ms : IsSome(ms[j].minPlan)}}

RolePredicates(ms) == [RoleLists(ms) -> BOOLEAN]
PlanPredicates(ms) == [PlanTiers(ms) -> BOOLEAN]

Start(ms, nav) ==
    /\ pc = "registry"
    /\ modules = ms
    /\ sidebarNav = nav
    /\ publicModules = <<>>
    /\ protectedModules = <<>>
    /\ moduleMap = <<>>
    /\ hasRole = [r \in RoleLists(ms) |-> FALSE]
    /\ hasPlan = [p \in PlanTiers(ms) |-> FALSE]
    /\ result = <<>>
    /\ ncalls = 0
    /\ boot = [modules |-> ms, sidebarNav |-> nav]

\* The shipped configuration
Init == Start(registry, navigation)

\* Any configuration of the two arrays: a registry of manifests with
\* pairwise distinct names and a sidebar of at most MaxNav entries.
ModuleNames == {"dashboard", "users"}
RolesOptions == {None, Some(<<>>), Some(<<"admin">>)}
PlanOptions == {None, Some("pro")}
PublicOptions == {Some(TRUE), Some(FALSE)}

\* Per name: every access rule on a manifest without a public flag, and the
\* two values of the flag on a manifest without access rules.
Manifests ==
    {Manifest(n, r, p, None) : n \in ModuleNames, r \in RolesOptions, p \in PlanOptions}
        \cup {Manifest(n, None, None, b) : n \in ModuleNames, b \in PublicOptions}

SeqsUpTo(S, n) == UNION {[1..k -> S] : k \in 0..n}

DistinctNames(ms) == \A i, j \in DOMAIN ms : ms[i].name = ms[j].name => i = j

Registries == {ms \in SeqsUpTo(Manifests, Cardinality(ModuleNames)) : DistinctNames(ms)}

NavItems ==
    { NavItem("dashboard", "/dashboard", "Dashboard"),
      NavItem("users", "/users", "Users"),
      NavItem("dashboard", "/reports", "Reports") }

Sidebars == SeqsUpTo(NavItems, MaxNav)

InitAny == \E ms \in Registries, nav \in Sidebars : Start(ms, nav)

(***************************************************************************)
(* Actions                                                                 *)
(***************************************************************************)
\* registry.ts lines 30 and 33
EvalRegistry ==
    /\ pc = "registry"
    /\ publicModules' = publicOf(modules)
    /\ protectedModules' = protectedOf(modules)
    /\ pc' = "navigation"
    /\ UNCHANGED <<modules, sidebarNav, moduleMap, hasRole, hasPlan, result, ncalls, boot>>

\* navigation.ts line 27
EvalNavigation ==
    /\ pc = "navigation"
    /\ moduleMap' = MapOf(modules)
    /\ pc' = "ready"
    /\ UNCHANGED <<modules, publicModules, protectedModules, sidebarNav,
                   hasRole, hasPlan, result, ncalls, boot>>

getVisibleNavInPlace(hr, hp) ==
    /\ pc = "ready"
    /\ hasRole' = hr
    /\ hasPlan' = hp
    /\ result' = filterNav(sidebarNav, moduleMap, hr, hp)
    /\ sidebarNav' = filterNav(sidebarNav, moduleMap, hr, hp)
    /\ ncalls' = IF ncalls < MaxCalls THEN ncalls + 1 ELSE ncalls
    /\ UNCHANGED <<pc, modules, publicModules, protectedModules, moduleMap, boot>>

\* navigation.ts lines 34-45
getVisibleNav(hr, hp) ==
    /\ pc = "ready"
    /\ hasRole' = hr
    /\ hasPlan' = hp
    /\ result' = filterNav(sidebarNav, moduleMap, hr, hp)
    /\ ncalls' = IF ncalls < MaxCalls THEN ncalls + 1 ELSE ncalls
    /\ UNCHANGED <<pc, modules, publicModules, protectedModules, sidebarNav, moduleMap, boot>>

Call == \E hr \in RolePredicates(modules), hp \in PlanPredicates(modules) : getVisibleNav(hr, hp)

Next == EvalRegistry \/ EvalNavigation \/ Call

Spec == Init /\ [][Next]_vars

SpecAny == InitAny /\ [][Next]_vars

(***************************************************************************)
(* Properties                                                              *)
(***************************************************************************)
called == ncalls > 0

AllTrue(f) == \A x \in DOMAIN f : f[x]
AllFalse(f) == \A x \in DOMAIN f : ~f[x]

RECURSIVE IsSubseq(_, _)
IsSubseq(r, s) ==
    IF r = <<>> THEN TRUE
    ELSE IF s = <<>> THEN FALSE
    ELSE IF Head(r) = Head(s) THEN IsSubseq(Tail(r), Tail(s))
    ELSE IsSubseq(r, Tail(s))

Registered(item) == \E j \in DOMAIN modules : modules[j].name = item.module

\* The claimed visibility rule, read off the registry array itself.
Eligible(item) ==
    \E j \in DOMAIN modules :
        /\ modules[j].name = item.module
        /\ \/ modules[j].allowedRoles = None
           \/ modules[j].allowedRoles = Some(<<>>)
           \/ hasRole[Val(modules[j].allowedRoles)]
        /\ \/ modules[j].minPlan = None
           \/ hasPlan[Val(modules[j].minPlan)]

\* C1: getVisibleNav returns exactly the sidebar items whose module is
\* registered and whose manifest passes the role rule (allowedRoles absent,
\* empty, or accepted by hasRole) and the plan rule (minPlan absent or
\* accepted by hasPlan): none other is returned and none such is omitted.
C1_ExactlyEligible ==
    called =>
        /\ Range(result) \subseteq Range(sidebarNav)
        /\ \A i \in DOMAIN sidebarNav :
               (sidebarNav[i] \in Range(result)) <=> Eligible(sidebarNav[i])
        /\ Len(result) = Cardinality({i \in DOMAIN sidebarNav : Eligible(sidebarNav[i])})

C1_Witness ==
    /\ called
    /\ Len(sidebarNav) = 2
    /\ Len(result) = 1
    /\ \A i \in DOMAIN sidebarNav : Registered(sidebarNav[i])
    /\ \E i \in DOMAIN sidebarNav :
           LET m == moduleMap[sidebarNav[i].module] IN
           /\ sidebarNav[i] \notin Range(result)
           /\ m.allowedRoles = None
           /\ m.minPlan # None

\* C2: a sidebar item whose module is not registered is never returned, the
\* call still returns a list, and the other items are returned exactly as
\* they would be if the unlinked items were not in sidebarNav.
C2_UnlinkedExcluded ==
    called =>
        /\ result \in Seq(Range(sidebarNav))
        /\ \A k \in DOMAIN result : Registered(result[k])
        /\ result = filterNav(SelectSeq(sidebarNav, Registered), moduleMap, hasRole, hasPlan)

C2_Witness ==
    /\ called
    /\ \E i \in DOMAIN sidebarNav : ~Registered(sidebarNav[i])
    /\ Len(result) = 1
    /\ Len(sidebarNav) = 2

\* C3: the names of the registered manifests are pairwise distinct, so
\* moduleMap has one entry per registered module and looking up a manifest's
\* name returns that manifest.
C3_UniqueNames ==
    /\ \A i, j \in DOMAIN modules : modules[i].name = modules[j].name => i = j
    /\ pc = "ready" =>
           /\ Cardinality(DOMAIN moduleMap) = Len(modules)
           /\ \A i \in DOMAIN modules : MapGet(moduleMap, modules[i].name) = Some(modules[i])

C3_Witness ==
    /\ pc = "ready"
    /\ Len(modules) = 5
    /\ Cardinality(DOMAIN moduleMap) = 5

\* C4: publicModules and protectedModules partition the registry: a manifest
\* is in publicModules iff its public flag is true and in protectedModules
\* iff the flag is absent or false, neither list holds anything else, and
\* each keeps the registry's order.
C4_Partition ==
    pc # "registry" =>
        /\ \A i \in DOMAIN modules :
               /\ (modules[i] \in Range(publicModules)) <=> (modules[i].public = Some(TRUE))
               /\ (modules[i] \in Range(protectedModules)) <=>
                      (modules[i].public \in {None, Some(FALSE)})
        /\ Range(publicModules) \cup Range(protectedModules) \subseteq Range(modules)
        /\ Range(publicModules) \cap Range(protectedModules) = {}
        /\ Len(publicModules) + Len(protectedModules) = Len(modules)
        /\ IsSubseq(publicModules, modules)
        /\ IsSubseq(protectedModules, modules)

C4_Witness ==
    /\ pc # "registry"
    /\ Len(publicModules) = 1
    /\ Len(protectedModules) = 1
    /\ protectedModules[1].public = None
    /\ modules[1].public = Some(TRUE)

\* C5: the list getVisibleNav returns is a subsequence of sidebarNav: its
\* items are sidebar items, none is returned more often than it occurs, and
\* they keep the order of sidebarNav.
C5_Subsequence == called => IsSubseq(result, sidebarNav)

C5_Witness ==
    /\ called
    /\ Len(result) = 2
    /\ result[1] # result[2]

\* C6: getVisibleNav is pure and total: every call returns a list, leaves
\* sidebarNav, modules and moduleMap as they were, and what it returns is
\* the function of its two predicates alone, however many calls came before.
C6_Pure ==
    /\ sidebarNav = boot.sidebarNav
    /\ modules = boot.modules
    /\ pc = "ready" => moduleMap = MapOf(boot.modules)
    /\ called =>
           /\ result \in Seq(Range(boot.sidebarNav))
           /\ result = filterNav(boot.sidebarNav, MapOf(boot.modules), hasRole, hasPlan)

C6_Witness ==
    /\ ncalls >= 2
    /\ Len(sidebarNav) = 2
    /\ Len(result) = 1

\* C7: whether a sidebar item is visible depends only on the module it names
\* and on the predicates: items naming the same module are visible together
\* or not at all, and changing `to` or `label` changes nothing.
Tos == {"/dashboard", "/products", "/users", "/settings", "/reports"}
Labels == {"Dashboard", "Products", "Users", "Settings", "Reports"}

C7_ModuleDecides ==
    called =>
        /\ \A i, j \in DOMAIN sidebarNav :
               sidebarNav[i].module = sidebarNav[j].module =>
                   ((sidebarNav[i] \in Range(result)) <=> (sidebarNav[j] \in Range(result)))
        /\ \A i \in DOMAIN sidebarNav : \A t \in Tos, l \in Labels :
               keep([sidebarNav[i] EXCEPT !.to = t, !.label = l], moduleMap, hasRole, hasPlan)
                   = keep(sidebarNav[i], moduleMap, hasRole, hasPlan)

C7_Witness ==
    /\ called
    /\ Len(result) = 2
    /\ result[1].module = result[2].module
    /\ result[1].to # result[2].to

\* C8: a registered module whose manifest omits allowedRoles, or gives the
\* empty list, passes the role check for every hasRole, also one that is
\* false everywhere: its item is visible exactly when the plan rule allows.
C8_NoRolesUnrestricted ==
    called =>
        \A i \in DOMAIN sidebarNav : \A j \in DOMAIN modules :
            (/\ modules[j].name = sidebarNav[i].module
             /\ modules[j].allowedRoles \in {None, Some(<<>>)})
            => ((sidebarNav[i] \in Range(result)) <=>
                    (modules[j].minPlan = None \/ hasPlan[Val(modules[j].minPlan)]))

C8_Witness ==
    /\ called
    /\ AllFalse(hasRole)
    /\ <<>> \in DOMAIN hasRole
    /\ \E k \in DOMAIN result : moduleMap[result[k].module].allowedRoles = Some(<<>>)
    /\ \E k \in DOMAIN result : moduleMap[result[k].module].allowedRoles = None

\* C9: every entry of the shipped sidebar names a registered module, so the
\* lookup never misses, and with hasRole and hasPlan true everywhere the
\* call returns dashboard, products, users, settings, in that order.
C9_ShippedAllLinked ==
    /\ \A i \in DOMAIN sidebarNav : Registered(sidebarNav[i])
    /\ pc = "ready" =>
           \A i \in DOMAIN sidebarNav : IsSome(MapGet(moduleMap, sidebarNav[i].module))
    /\ (called /\ AllTrue(hasRole) /\ AllTrue(hasPlan)) =>
           /\ result = sidebarNav
           /\ [k \in DOMAIN result |-> result[k].module]
                  = <<"dashboard", "products", "users", "settings">>

C9_Witness ==
    /\ called
    /\ AllTrue(hasRole)
    /\ AllTrue(hasPlan)
    /\ Len(result) = 4

====
